---- MODULE Spec2Model ----
(***************************************************************************)
(* FileSense.AI: the quota gate in front of the file routes, the backend   *)
(* processing session (processFilesAsync) and the client pipeline hook     *)
(* (useFileProcessing), modelled as state machines.                        *)
(*                                                                         *)
(*   SpecGate     the HTTP layer: optionalAuth, checkFileProcessingLimit,  *)
(*                then uploadFiles or processFiles                         *)
(*   SpecQuota    the quota answers: DatabaseService.canProcessFiles,      *)
(*                AuthProvider and AuthService canProcessFiles             *)
(*   SpecSession  one processing session run by processFilesAsync          *)
(*   SpecHook     the useFileProcessing hook and its renders               *)
(*   SpecScreen   the ProcessingScreen component and its three stages      *)
(*   SpecStatus   the session polled through getProcessingStatus           *)
(*   SpecFallback generateFallbackFilename over texts and clock readings   *)
(*   SpecNaming   generateFilenameAI and FileService.generateFilename      *)
(*   SpecSessionLive  SpecSession with every call of the task returning    *)
(*   SpecConcurrent   sessions one user submits while earlier ones run     *)
(*   SpecUsage    updateUsageStats calls of several sessions side by side  *)
(***************************************************************************)
EXTENDS Integers, Sequences, FiniteSets, TLC

\* ---------------------------------------------------------------- bounds
\* largest batch (file ids or uploaded files) of one request in SpecGate
MaxBatch == 3
\* number of processing sessions created in SpecGate
MaxSessions == 1
\* largest batch of the session in SpecSession
LongBatch == 11
\* largest fileCount asked of canProcessFiles in SpecQuota
MaxAsk == 7
\* how far beyond monthlyLimit filesProcessedThisMonth starts in SpecQuota
UsedSlack == 1
\* largest batch passed to processFiles of the hook in SpecHook
HookBatch == 2
\* number of calls of processFiles in SpecHook
MaxRuns == 2
\* largest route.params.files of the ProcessingScreen in SpecScreen
ScreenBatch == 3
\* number of GET /files/processing/:sessionId calls in SpecStatus
MaxPolls == 3
\* largest batch of the session polled in SpecStatus
PollBatch == 2
\* number of generateFallbackFilename calls kept in SpecFallback
MaxCalls == 2
\* days of the month on which updateUsageStats may read the clock
MaxDays == 2
\* number of sessions one user submits in SpecConcurrent
MaxSubmits == 2

\* ------------------------------------------------------ program constants
\* auth.ts: guestFileCount + fileCount > 5
GuestLimit == 5
\* App.tsx and authService.ts: canProcess: fileCount <= 5, remainingFiles: 5
ClientGuestLimit == 5
\* database.ts createUser: monthlyLimit: 5
FreeMonthlyLimit == 5

Roles == {"free", "premium", "admin"}
Uids == {"u1"}
Guest == "guest"
Callers == Uids \cup {Guest}

VARIABLES
  users,        \* collection users: uid -> UserDocument
  reqSession,   \* req.session as the middleware chain delivers it
  files,        \* collection files: the FileDocuments, in creation order
  sessions,     \* collection processing_sessions, in creation order
  tasks,        \* the detached processFilesAsync call of each session
  usage,        \* collection usage_stats: uid -> this month's document
  resp,         \* the last HTTP response of the file routes
  guestAdmitted, \* files of guest submissions let through the gate so far
  dbCheck,      \* the last answer of DatabaseService.canProcessFiles
  authUser,     \* AuthService.currentUser on the client
  isGuest,      \* AuthProvider state isGuest
  clientCheck,  \* the last answer of AuthProvider.canProcessFiles
  hookFiles,    \* useFileProcessing state files
  processingStatus, \* useFileProcessing state processingStatus
  isProcessing, \* useFileProcessing state isProcessing
  error,        \* useFileProcessing state error
  shouldCancel, \* useFileProcessing state shouldCancel
  rendered,     \* the state values the callbacks of the last render closed over
  runs,         \* the calls of processFiles, in call order
  screen,       \* ProcessingScreen state: files, processingStatus, ...
  screenRun,    \* the startProcessing call of the mounted ProcessingScreen
  nav,          \* the navigator: the route shown and the files it was given
  statusResp,   \* the last answer of GET /files/processing/:sessionId
  fallbackCalls, \* the calls of generateFallbackFilename made so far
  named         \* the last call of a naming step and what it returned

backendVars == <<users, reqSession, files, sessions, tasks, usage,
                 resp, guestAdmitted, dbCheck>>

clientVars == <<authUser, isGuest, clientCheck>>

hookVars == <<hookFiles, processingStatus, isProcessing, error, shouldCancel,
              rendered, runs>>

screenVars == <<screen, screenRun, nav>>

pollVars == <<statusResp>>

namingVars == <<fallbackCalls, named>>

vars == <<backendVars, clientVars, hookVars, screenVars, pollVars, namingVars>>

\* ------------------------------------------------------------ documents
\* DatabaseService.createUser: the usage fields of a UserDocument
UserDoc(role, used) ==
  [role |-> role, monthlyLimit |-> FreeMonthlyLimit,
   filesProcessedThisMonth |-> used, totalFilesProcessed |-> used]

\* a FileDocument that was created and has been deleted since
NoFile ==
  [exists |-> FALSE, processingStatus |-> "pending",
   isProcessed |-> FALSE, isRenamed |-> FALSE, hasText |-> FALSE,
   suggestedName |-> "none"]

\* the file id names a document of the collection
FileExists(f) == f \in 1..Len(files) /\ files[f].exists

\* DatabaseService.createFile: defaults of a new FileDocument
NewFile ==
  [exists |-> TRUE, processingStatus |-> "pending",
   isProcessed |-> FALSE, isRenamed |-> FALSE, hasText |-> FALSE,
   suggestedName |-> "none"]

\* a variant that starts a session with its files counted as processed and
\* one as failed
NewSessionCounted(owner, fileIds) ==
  [userId |-> owner, fileIds |-> fileIds, totalFiles |-> Len(fileIds),
   status |-> "pending", progress |-> 0, currentFileIndex |-> 0,
   processedFiles |-> Len(fileIds), renamedFiles |-> 0, failedFiles |-> 1,
   errorMessage |-> FALSE, completedAt |-> FALSE]

\* DatabaseService.createProcessingSession: defaults, then ...sessionData
NewSession(owner, fileIds) ==
  [userId |-> owner, fileIds |-> fileIds, totalFiles |-> Len(fileIds),
   status |-> "pending", progress |-> 0, currentFileIndex |-> 0,
   processedFiles |-> 0, renamedFiles |-> 0, failedFiles |-> 0,
   errorMessage |-> FALSE, completedAt |-> FALSE]

\* processFilesAsync(fileIds, sessionId, req.user?.uid) before its first await
\* i: the loop variable; visited: calls of processIndividualFile so far;
\* failedAt: position (from 1) of the file whose processing threw, 0 if none;
\* thrown: what the catch block caught ("none", "file", "session", "usage");
\* day: now.getDate() as updateUsageStats read it (0: not called yet);
\* sawStats: currentStats.exists as updateUsageStats read it
NewTask(owner) ==
  [pc |-> "start", i |-> 0, userId |-> owner, sawStats |-> FALSE, day |-> 0,
   visited |-> 0, failedAt |-> 0, thrown |-> "none"]

\* nobody has asked for a session's status yet.  polls counts the calls;
\* quiet: no step of a pipeline task since the last call; repeated: the last
\* call came while quiet, for the same session as the call before it
NoStatusResp ==
  [polls |-> 0, quiet |-> FALSE, repeated |-> FALSE, sessionId |-> 0,
   data |-> [status |-> "none", progress |-> 0, currentFileIndex |-> 0,
             totalFiles |-> 0, processedFiles |-> 0, renamedFiles |-> 0,
             failedFiles |-> 0]]

\* a step of a pipeline task ends the quiet period after a status call
Disturbed == [statusResp EXCEPT !.quiet = FALSE]

\* no naming step was called yet
NoNamed ==
  [side |-> "none", hasKey |-> FALSE, reply |-> "none", text |-> <<>>,
   iso |-> <<>>, threw |-> FALSE, name |-> <<>>]

\* no usage_stats document for the month yet
NoUsage ==
  [exists |-> FALSE, filesProcessed |-> 0, textExtracted |-> 0,
   filesRenamed |-> 0, apiCallsMade |-> 0, dailyStats |-> <<>>]

\* the days of the month the clock may show
Days == 1..MaxDays

\* an entry of dailyStats
DayStats(filesProcessed, textExtracted, filesRenamed) ==
  [filesProcessed |-> filesProcessed, textExtracted |-> textExtracted,
   filesRenamed |-> filesRenamed]

\* the file ids a client sends: n ids, in upload order
Batch(n) == [k \in 1..n |-> k]

\* no response sent yet
NoResp ==
  [route |-> "none", userId |-> Guest, code |-> 0, requested |-> 0,
   fileCount |-> 0, prior |-> 0, next |-> FALSE, currentCount |-> 0,
   requestedCount |-> 0, role |-> "none", monthlyLimit |-> 0, used |-> 0,
   canProcess |-> FALSE, remainingFiles |-> 0]

\* no canProcessFiles call answered yet
NoCheck ==
  [called |-> FALSE, guest |-> FALSE, n |-> 0, role |-> "none",
   monthlyLimit |-> 0, used |-> 0, canProcess |-> FALSE, remainingFiles |-> 0]

\* AuthService.currentUser = null
NoAuthUser ==
  [present |-> FALSE, role |-> "none", monthlyLimit |-> 0,
   filesProcessedThisMonth |-> 0]

\* ------------------------------------------------------- the quota gate
\* req.files at the time the gate runs: no route runs multer before it
ReqFilesLengthAtGate == 0

\* const fileCount = req.body.fileCount || req.files?.length || 1
\* (0 stands for a missing or zero value: both are falsy)
FileCountOf(bodyFileCount, reqFilesLength) ==
  IF bodyFileCount # 0 THEN bodyFileCount
  ELSE IF reqFilesLength # 0 THEN reqFilesLength
  ELSE 1

\* req.session?.guestFileCount || 0
GuestFileCountOf(sess) ==
  IF sess.present THEN sess.guestFileCount ELSE 0

\* DatabaseService.canProcessFiles, given the user document it read
\* a variant that refuses a request for exactly the remaining files
DbCanProcessFilesStrict(user, fileCount) ==
  LET remainingFiles == user.monthlyLimit - user.filesProcessedThisMonth
  IN [canProcess |-> (remainingFiles > fileCount) \/ user.role = "premium",
      remainingFiles |-> remainingFiles]

DbCanProcessFiles(user, fileCount) ==
  LET remainingFiles == user.monthlyLimit - user.filesProcessedThisMonth
  IN [canProcess |-> (remainingFiles >= fileCount) \/ user.role = "premium",
      remainingFiles |-> remainingFiles]

\* the body of checkFileProcessingLimit: what it answers and whether it
\* calls next(); dbOk: DatabaseService.canProcessFiles returned (FALSE: threw)
GateDecision(who, fileCount, dbOk) ==
  IF who = Guest
  THEN LET guestFileCount == GuestFileCountOf(reqSession)
       IN IF guestFileCount + fileCount > GuestLimit
          THEN [next |-> FALSE, code |-> 403, currentCount |-> guestFileCount,
                requestedCount |-> fileCount, canProcess |-> FALSE,
                remainingFiles |-> 0, session |-> reqSession]
          ELSE [next |-> TRUE, code |-> 0, currentCount |-> guestFileCount,
                requestedCount |-> fileCount, canProcess |-> TRUE,
                remainingFiles |-> 0,
                session |-> IF reqSession.present
                            THEN [reqSession EXCEPT
                                    !.guestFileCount = guestFileCount + fileCount]
                            ELSE reqSession]
  ELSE IF ~dbOk
  THEN [next |-> FALSE, code |-> 500, currentCount |-> 0,
        requestedCount |-> fileCount, canProcess |-> FALSE,
        remainingFiles |-> 0, session |-> reqSession]
  ELSE LET d == DbCanProcessFiles(users[who], fileCount)
       IN IF ~d.canProcess
          THEN [next |-> FALSE, code |-> 403, currentCount |-> 0,
                requestedCount |-> fileCount, canProcess |-> FALSE,
                remainingFiles |-> d.remainingFiles, session |-> reqSession]
          ELSE [next |-> TRUE, code |-> 0, currentCount |-> 0,
                requestedCount |-> fileCount, canProcess |-> TRUE,
                remainingFiles |-> d.remainingFiles, session |-> reqSession]

\* a gate that answers 403 and, its return missing, goes on to next()
CheckFileProcessingLimitNoReturn(who, fileCount, dbOk) ==
  [GateDecision(who, fileCount, dbOk) EXCEPT !.next = TRUE]

\* checkFileProcessingLimit
CheckFileProcessingLimit(who, fileCount, dbOk) ==
  GateDecision(who, fileCount, dbOk)

\* the response record of one request (the gate's data and the outcome)
Response(route, who, n, fileCount, g, code) ==
  [route |-> route, userId |-> who, code |-> code, requested |-> n,
   fileCount |-> fileCount,
   prior |-> IF who = Guest THEN guestAdmitted ELSE 0,
   next |-> g.next, currentCount |-> g.currentCount,
   requestedCount |-> g.requestedCount,
   role |-> IF who = Guest THEN "none" ELSE users[who].role,
   monthlyLimit |-> IF who = Guest THEN 0 ELSE users[who].monthlyLimit,
   used |-> IF who = Guest THEN 0 ELSE users[who].filesProcessedThisMonth,
   canProcess |-> g.canProcess, remainingFiles |-> g.remainingFiles]

\* POST /files/process: optionalAuth, checkFileProcessingLimit, processFiles
\* n: number of ids in body.fileIds; bodyFileCount: body.fileCount;
\* created: createProcessingSession returned (FALSE: it threw)
ProcessFilesRoute(who, n, bodyFileCount, dbOk, created) ==
  LET fileCount == FileCountOf(bodyFileCount, ReqFilesLengthAtGate)
      g == CheckFileProcessingLimit(who, fileCount, dbOk)
  IN /\ reqSession' = g.session
     /\ IF ~g.next
        THEN /\ resp' = Response("process", who, n, fileCount, g, g.code)
             /\ UNCHANGED <<sessions, tasks, guestAdmitted>>
        ELSE IF n = 0
        THEN /\ resp' = Response("process", who, n, fileCount, g, 400)
             /\ UNCHANGED <<sessions, tasks, guestAdmitted>>
        ELSE IF ~created
        THEN /\ resp' = Response("process", who, n, fileCount, g, 500)
             /\ UNCHANGED <<sessions, tasks, guestAdmitted>>
        ELSE /\ sessions' = Append(sessions, NewSession(who, Batch(n)))
             /\ tasks' = Append(tasks, NewTask(who))
             /\ resp' = Response("process", who, n, fileCount, g, 200)
             /\ guestAdmitted' =
                  IF who = Guest THEN guestAdmitted + n ELSE guestAdmitted
     /\ UNCHANGED <<users, files, usage, dbCheck>>
     /\ UNCHANGED <<clientVars, hookVars, screenVars, pollVars, namingVars>>

\* POST /files/process, for as many sessions as SpecGate follows
PostProcess(who, n, bodyFileCount, dbOk, created) ==
  /\ Len(sessions) < MaxSessions
  /\ ProcessFilesRoute(who, n, bodyFileCount, dbOk, created)

\* the documents uploadFiles has created after `made` createFile calls
FilesAfterUpload(made) ==
  files \o [k \in 1..made |-> NewFile]

\* POST /files/upload: optionalAuth, checkFileProcessingLimit,
\* upload.array('files', 20), uploadFiles
\* k: number of files in the multipart body; made: createFile calls that
\* returned before one threw (made = k: none threw)
PostUpload(who, k, dbOk, made) ==
  LET fileCount == FileCountOf(0, ReqFilesLengthAtGate)
      g == CheckFileProcessingLimit(who, fileCount, dbOk)
  IN /\ Len(files) + k <= MaxBatch
     /\ made <= k
     /\ reqSession' = g.session
     /\ IF ~g.next
        THEN /\ resp' = Response("upload", who, k, fileCount, g, g.code)
             /\ UNCHANGED <<files, guestAdmitted>>
        ELSE IF k = 0
        THEN /\ resp' = Response("upload", who, k, fileCount, g, 400)
             /\ UNCHANGED <<files, guestAdmitted>>
        ELSE /\ files' = FilesAfterUpload(made)
             /\ resp' = Response("upload", who, k, fileCount, g,
                                  IF made = k THEN 200 ELSE 500)
             /\ guestAdmitted' =
                  IF who = Guest /\ made = k THEN guestAdmitted + k
                  ELSE guestAdmitted
     /\ UNCHANGED <<users, sessions, tasks, usage, dbCheck>>
     /\ UNCHANGED <<clientVars, hookVars, screenVars, pollVars, namingVars>>

\* --------------------------------------------------- SpecGate: HTTP layer
\* index.ts installs no session middleware: req.session is undefined
NoReqSession == [present |-> FALSE, guestFileCount |-> 0]

\* values of body.fileCount sent with a batch of n ids: none (0), the size
\* of the batch, or a number above every limit
BodyFileCounts(n) == {0, n, GuestLimit + 1}

InitBackend ==
  /\ users \in [Uids -> {UserDoc(r, 0) : r \in Roles}]
  /\ reqSession = NoReqSession
  /\ files = <<>>
  /\ sessions = <<>>
  /\ tasks = <<>>
  /\ usage = [u \in Uids |-> NoUsage]
  /\ resp = NoResp
  /\ guestAdmitted = 0
  /\ dbCheck = NoCheck

\* a FileItem as the pickers deliver it; extractedText and suggestedName
\* record whether the string is set and non-empty
FreshItem(k) ==
  [id |-> k, extractedText |-> FALSE, suggestedName |-> FALSE,
   isProcessing |-> FALSE, isRenamed |-> FALSE]

PickedFiles(n) == [k \in 1..n |-> FreshItem(k)]

\* a progress value num / den, kept exact
Frac(num, den) == <<num, den>>

\* useState<ProcessingStatus>({stage: 'idle', ..., progress: 0})
IdleStatus == [stage |-> "idle", progress |-> Frac(0, 1)]

\* the values of isProcessing, shouldCancel and files a render hands to
\* useCallback
Closure(proc, cancel, fs) ==
  [isProcessing |-> proc, shouldCancel |-> cancel, files |-> fs]

\* ProcessingScreen: useState of files, processingStatus, isProcessing and
\* currentFileIndex, before the screen is shown (files: route.params.files)
ScreenState(fs) ==
  [files |-> fs,
   processingStatus |-> [stage |-> "idle", progress |-> Frac(0, 1)],
   isProcessing |-> FALSE, currentFileIndex |-> 0]

\* no startProcessing call yet
NoScreenRun == [pc |-> "none", i |-> 0, files |-> <<>>, updatedFiles |-> <<>>]

\* the navigator before the Processing route is pushed
InitScreen ==
  /\ screen = ScreenState(<<>>)
  /\ screenRun = NoScreenRun
  /\ nav = [at |-> "Home", files |-> <<>>]

\* the hook after its first render
InitHook ==
  /\ hookFiles = <<>>
  /\ processingStatus = IdleStatus
  /\ isProcessing = FALSE
  /\ error = "null"
  /\ shouldCancel = FALSE
  /\ rendered = Closure(FALSE, FALSE, <<>>)
  /\ runs = <<>>

\* the client before anybody signed in or chose guest mode
InitClient ==
  /\ InitHook
  /\ InitScreen
  /\ statusResp = NoStatusResp
  /\ fallbackCalls = {}
  /\ named = NoNamed
  /\ authUser = NoAuthUser
  /\ isGuest = FALSE
  /\ clientCheck = NoCheck

InitGate == InitBackend /\ InitClient

\* the app before any file was submitted
InitHookScreen ==
  /\ InitGate
  /\ users = [u \in Uids |-> UserDoc("free", 0)]

NextGate ==
  \/ \E who \in Callers, n \in 0..MaxBatch, dbOk \in BOOLEAN, created \in BOOLEAN :
       \E c \in BodyFileCounts(n) :
         /\ who = Guest => dbOk
         /\ ~dbOk => created
         /\ PostProcess(who, n, c, dbOk, created)
  \/ \E who \in Callers, k \in 0..MaxBatch, dbOk \in BOOLEAN :
       \E made \in 0..k :
         /\ who = Guest => dbOk
         /\ ~dbOk => made = k
         /\ PostUpload(who, k, dbOk, made)

SpecGate == InitGate /\ [][NextGate]_vars

\* ------------------------------------- SpecQuota: the canProcessFiles calls
\* DatabaseService.canProcessFiles(uid, fileCount), called on its own
DbCanProcessFilesCall(uid, fileCount) ==
  LET d == DbCanProcessFiles(users[uid], fileCount)
  IN /\ dbCheck' = [called |-> TRUE, guest |-> FALSE, n |-> fileCount,
                    role |-> users[uid].role,
                    monthlyLimit |-> users[uid].monthlyLimit,
                    used |-> users[uid].filesProcessedThisMonth,
                    canProcess |-> d.canProcess,
                    remainingFiles |-> d.remainingFiles]
     /\ UNCHANGED <<users, reqSession, files, sessions, tasks,
                    usage, resp, guestAdmitted>>
     /\ UNCHANGED <<clientVars, hookVars, screenVars, pollVars, namingVars>>

\* AuthService.canProcessFiles(fileCount)
AuthServiceCanProcessFiles(fileCount) ==
  IF ~authUser.present
  THEN [canProcess |-> fileCount <= ClientGuestLimit,
        remainingFiles |-> ClientGuestLimit]
  ELSE LET remainingFiles ==
             authUser.monthlyLimit - authUser.filesProcessedThisMonth
       IN [canProcess |-> (remainingFiles >= fileCount)
                            \/ authUser.role = "premium",
           remainingFiles |-> remainingFiles]

\* AuthProvider.canProcessFiles(fileCount)
AppCanProcessFiles(fileCount) ==
  IF isGuest
  THEN [canProcess |-> fileCount <= ClientGuestLimit,
        remainingFiles |-> ClientGuestLimit]
  ELSE AuthServiceCanProcessFiles(fileCount)

\* a screen asks the AuthProvider whether fileCount files may be processed
CanProcessFilesCall(fileCount) ==
  LET a == AppCanProcessFiles(fileCount)
  IN /\ clientCheck' = [called |-> TRUE,
                        guest |-> isGuest \/ ~authUser.present,
                        n |-> fileCount, role |-> authUser.role,
                        monthlyLimit |-> authUser.monthlyLimit,
                        used |-> authUser.filesProcessedThisMonth,
                        canProcess |-> a.canProcess,
                        remainingFiles |-> a.remainingFiles]
     /\ UNCHANGED <<authUser, isGuest>>
     /\ UNCHANGED <<backendVars, hookVars, screenVars, pollVars, namingVars>>

\* AuthProvider.verifyOtp succeeded: AuthService.setAuthData(user), setUser,
\* setIsGuest(false); the user is the backend's document at that time
SignIn(uid) ==
  /\ authUser' = [present |-> TRUE, role |-> users[uid].role,
                  monthlyLimit |-> users[uid].monthlyLimit,
                  filesProcessedThisMonth |-> users[uid].filesProcessedThisMonth]
  /\ isGuest' = FALSE
  /\ UNCHANGED clientCheck
  /\ UNCHANGED <<backendVars, hookVars, screenVars, pollVars, namingVars>>

\* AuthProvider.signOut succeeded: AuthService.clearAuthData, setIsGuest(false)
SignOut ==
  /\ authUser.present
  /\ authUser' = NoAuthUser
  /\ isGuest' = FALSE
  /\ UNCHANGED clientCheck
  /\ UNCHANGED <<backendVars, hookVars, screenVars, pollVars, namingVars>>

\* AuthProvider.continueAsGuest: setIsGuest(true), setUser(null)
ContinueAsGuest ==
  /\ isGuest' = TRUE
  /\ UNCHANGED <<authUser, clientCheck>>
  /\ UNCHANGED <<backendVars, hookVars, screenVars, pollVars, namingVars>>

\* a user document with any role and any usage up to and beyond its limit
InitQuota ==
  /\ InitClient
  /\ users \in [Uids -> {UserDoc(r, u) : r \in Roles,
                                         u \in 0..(FreeMonthlyLimit + UsedSlack)}]
  /\ reqSession = NoReqSession
  /\ files = <<>>
  /\ sessions = <<>>
  /\ tasks = <<>>
  /\ usage = [u \in Uids |-> NoUsage]
  /\ resp = NoResp
  /\ guestAdmitted = 0
  /\ dbCheck = NoCheck

NextQuota ==
  \/ \E uid \in Uids, n \in 1..MaxAsk : DbCanProcessFilesCall(uid, n)
  \/ \E n \in 1..MaxAsk : CanProcessFilesCall(n)
  \/ \E uid \in Uids : SignIn(uid)
  \/ SignOut
  \/ ContinueAsGuest

SpecQuota == InitQuota /\ [][NextQuota]_vars

\* ------------------------------------------- SpecSession: processFilesAsync
\* Math.round(((i + 1) / fileIds.length) * 100)
RoundedProgress(i, n) == ((i + 1) * 200 + n) \div (2 * n)

\* DatabaseService.updateProcessingSession(sessionId, updates)
UpdateSession(s, updates) ==
  [sessions EXCEPT ![s] =
     [fld \in DOMAIN sessions[s] |->
        IF fld \in DOMAIN updates THEN updates[fld] ELSE sessions[s][fld]]]

\* DatabaseService.updateFile(fileId, updates)
UpdateFile(f, updates) ==
  [files EXCEPT ![f] =
     [fld \in DOMAIN files[f] |->
        IF fld \in DOMAIN updates THEN updates[fld] ELSE files[f][fld]]]

\* the task of session s moves to pc
Goto(s, pc) == [tasks EXCEPT ![s].pc = pc]

\* an await of the try block rejected: control passes to the catch block
Throw(s, what) == [tasks EXCEPT ![s].pc = "catch", ![s].thrown = what]

\* the file id the loop is at
CurrentFileId(s) == sessions[s].fileIds[tasks[s].i + 1]

\* updateProcessingSession({status: 'processing', progress: 10})
\* ok: the write was applied (FALSE: Firestore rejected it)
TaskStart(s, ok) ==
  /\ tasks[s].pc = "start"
  /\ IF ok
     THEN /\ sessions' = UpdateSession(s, [status |-> "processing", progress |-> 10])
          /\ tasks' = Goto(s, "loop")
     ELSE /\ tasks' = Throw(s, "session")
          /\ UNCHANGED sessions
  /\ UNCHANGED <<users, reqSession, files, usage, resp, guestAdmitted, dbCheck>>
  /\ UNCHANGED <<clientVars, hookVars, screenVars, namingVars>>
  /\ statusResp' = Disturbed

\* loop head: updateProcessingSession({currentFileIndex: i, progress})
TaskLoopUpdate(s, ok) ==
  /\ tasks[s].pc = "loop"
  /\ IF ok
     THEN /\ sessions' = UpdateSession(s,
                 [currentFileIndex |-> tasks[s].i,
                  progress |-> RoundedProgress(tasks[s].i, Len(sessions[s].fileIds))])
          /\ tasks' = Goto(s, "fileMark")
     ELSE /\ tasks' = Throw(s, "session")
          /\ UNCHANGED sessions
  /\ UNCHANGED <<users, reqSession, files, usage, resp, guestAdmitted, dbCheck>>
  /\ UNCHANGED <<clientVars, hookVars, screenVars, namingVars>>
  /\ statusResp' = Disturbed

\* processIndividualFile: updateFile({processingStatus: 'processing'})
\* (an update of a document that does not exist is rejected)
FileMark(s, ok) ==
  /\ tasks[s].pc = "fileMark"
  /\ ok => FileExists(CurrentFileId(s))
  /\ IF ok
     THEN /\ files' = UpdateFile(CurrentFileId(s), [processingStatus |-> "processing"])
          /\ tasks' = [tasks EXCEPT ![s].pc = "fileResult",
                                    ![s].visited = @ + 1]
     ELSE /\ tasks' = [tasks EXCEPT ![s].pc = "fileCatch",
                                    ![s].visited = @ + 1,
                                    ![s].failedAt = tasks[s].i + 1]
          /\ UNCHANGED files
  /\ UNCHANGED <<users, reqSession, sessions, usage, resp, guestAdmitted, dbCheck>>
  /\ UNCHANGED <<clientVars, hookVars, screenVars, namingVars>>
  /\ statusResp' = Disturbed

\* the loop variable after the file at i is done: i++ and the loop test
AfterFile(s) ==
  [tasks EXCEPT ![s].i = @ + 1,
                ![s].pc = IF tasks[s].i + 1 < Len(sessions[s].fileIds)
                          THEN "loop" ELSE "complete"]

\* processIndividualFile: generateFilenameAI (it catches every error and
\* returns the provider's name or the fallback name, "name" here), then
\* updateFile with the results; back in the loop, the one second delay, i++
FileResult(s, ok) ==
  /\ tasks[s].pc = "fileResult"
  /\ ok => FileExists(CurrentFileId(s))
  /\ IF ok
     THEN /\ files' = UpdateFile(CurrentFileId(s),
                 [hasText |-> TRUE, suggestedName |-> "name",
                  processingStatus |-> "completed", isProcessed |-> TRUE])
          /\ tasks' = AfterFile(s)
     ELSE /\ tasks' = [tasks EXCEPT ![s].pc = "fileCatch",
                                    ![s].failedAt = tasks[s].i + 1]
          /\ UNCHANGED files
  /\ UNCHANGED <<users, reqSession, sessions, usage, resp, guestAdmitted, dbCheck>>
  /\ UNCHANGED <<clientVars, hookVars, screenVars, namingVars>>
  /\ statusResp' = Disturbed

\* processIndividualFile, catch: updateFile({processingStatus: 'failed'}),
\* then throw error (or the rejection of this very update)
FileCatch(s, ok) ==
  /\ tasks[s].pc = "fileCatch"
  /\ ok => FileExists(CurrentFileId(s))
  /\ files' = IF ok
              THEN UpdateFile(CurrentFileId(s), [processingStatus |-> "failed"])
              ELSE files
  /\ tasks' = Throw(s, "file")
  /\ UNCHANGED <<users, reqSession, sessions, usage, resp, guestAdmitted, dbCheck>>
  /\ UNCHANGED <<clientVars, hookVars, screenVars, namingVars>>
  /\ statusResp' = Disturbed

\* updateProcessingSession({status: 'completed', progress: 100, completedAt})
TaskComplete(s, ok) ==
  /\ tasks[s].pc = "complete"
  /\ IF ok
     THEN /\ sessions' = UpdateSession(s,
                 [status |-> "completed", progress |-> 100, completedAt |-> TRUE])
          /\ tasks' = Goto(s, IF tasks[s].userId # Guest THEN "increment" ELSE "done")
     ELSE /\ tasks' = Throw(s, "session")
          /\ UNCHANGED sessions
  /\ UNCHANGED <<users, reqSession, files, usage, resp, guestAdmitted, dbCheck>>
  /\ UNCHANGED <<clientVars, hookVars, screenVars, namingVars>>
  /\ statusResp' = Disturbed

\* a variant that counts the month only
IncrementFileCountMonthOnly(uid, count) ==
  [users EXCEPT ![uid].filesProcessedThisMonth = @ + count]

\* DatabaseService.incrementFileCount(uid, count)
IncrementFileCount(uid, count) ==
  [users EXCEPT ![uid].filesProcessedThisMonth = @ + count,
                ![uid].totalFilesProcessed = @ + count]

\* if (userId) await DatabaseService.incrementFileCount(userId, fileIds.length)
TaskIncrement(s, ok) ==
  /\ tasks[s].pc = "increment"
  /\ IF ok
     THEN /\ users' = IncrementFileCount(tasks[s].userId, Len(sessions[s].fileIds))
          /\ tasks' = Goto(s, "usageGet")
     ELSE /\ tasks' = Throw(s, "usage")
          /\ UNCHANGED users
  /\ UNCHANGED <<reqSession, files, sessions, usage, resp, guestAdmitted, dbCheck>>
  /\ UNCHANGED <<clientVars, hookVars, screenVars, namingVars>>
  /\ statusResp' = Disturbed

\* DatabaseService.updateUsageStats: now = new Date(), day = now.getDate(),
\* const currentStats = await statsRef.get().  The clock never shows a day
\* before one it showed to an earlier call.
TaskUsageGet(s, ok, day) ==
  /\ tasks[s].pc = "usageGet"
  /\ \A t \in 1..Len(tasks) : tasks[t].day <= day
  /\ tasks' = IF ok
              THEN [tasks EXCEPT ![s].pc = "usagePut",
                                 ![s].day = day,
                                 ![s].sawStats = usage[tasks[s].userId].exists]
              ELSE [Throw(s, "usage") EXCEPT ![s].day = day]
  /\ UNCHANGED <<users, reqSession, files, sessions, usage, resp, guestAdmitted,
                 dbCheck>>
  /\ UNCHANGED <<clientVars, hookVars, screenVars, namingVars>>
  /\ statusResp' = Disturbed

\* FieldValue.increment on `dailyStats.${day}.<field>`: the entry of the day
\* is created when it is missing
DayIncremented(dailyStats, day, filesProcessed, textExtracted) ==
  [d \in DOMAIN dailyStats \cup {day} |->
     IF d # day THEN dailyStats[d]
     ELSE IF d \in DOMAIN dailyStats
     THEN DayStats(dailyStats[d].filesProcessed + filesProcessed,
                   dailyStats[d].textExtracted + textExtracted,
                   dailyStats[d].filesRenamed)
     ELSE DayStats(filesProcessed, textExtracted, 0)]

\* a variant that adds to the month's totals only
UsageIncrementedTotalsOnly(u, day, filesProcessed, textExtracted) ==
  [u EXCEPT !.filesProcessed = @ + filesProcessed,
            !.textExtracted = @ + textExtracted]

\* updateUsageStats, currentStats.exists: statsRef.update with increments
UsageIncremented(u, day, filesProcessed, textExtracted) ==
  [u EXCEPT !.filesProcessed = @ + filesProcessed,
            !.textExtracted = @ + textExtracted,
            !.dailyStats = DayIncremented(@, day, filesProcessed,
                                          textExtracted)]

\* updateUsageStats, no document seen: statsRef.set(newStats)
UsageCreated(day, filesProcessed, textExtracted) ==
  [exists |-> TRUE, filesProcessed |-> filesProcessed,
   textExtracted |-> textExtracted, filesRenamed |-> 0, apiCallsMade |-> 0,
   dailyStats |-> [d \in {day} |-> DayStats(filesProcessed, textExtracted, 0)]]

\* the month's document after generateFilename's updateUsageStats(uid,
\* {apiCallsMade: 1}) created it on `day`
UsageAfterApiCall(day) == [UsageCreated(day, 0, 0) EXCEPT !.apiCallsMade = 1]

\* updateUsageStats(userId, {filesProcessed: n, textExtracted: n}): the write
TaskUsagePut(s, ok) ==
  LET uid == tasks[s].userId
      n == Len(sessions[s].fileIds)
  IN /\ tasks[s].pc = "usagePut"
     /\ IF ok
        THEN /\ usage' = [usage EXCEPT ![uid] =
                            IF tasks[s].sawStats
                            THEN UsageIncremented(usage[uid], tasks[s].day,
                                                  n, n)
                            ELSE UsageCreated(tasks[s].day, n, n)]
             /\ tasks' = Goto(s, "done")
        ELSE /\ tasks' = Throw(s, "usage")
             /\ UNCHANGED usage
     /\ UNCHANGED <<users, reqSession, files, sessions, resp, guestAdmitted,
                    dbCheck>>
     /\ UNCHANGED <<clientVars, hookVars, screenVars, namingVars>>
     /\ statusResp' = Disturbed

\* catch (error): updateProcessingSession({status: 'failed', errorMessage});
\* when this write is rejected too, the promise of processFilesAsync rejects
TaskCatch(s, ok) ==
  /\ tasks[s].pc = "catch"
  /\ IF ok
     THEN /\ sessions' = UpdateSession(s, [status |-> "failed", errorMessage |-> TRUE])
          /\ tasks' = Goto(s, "done")
     ELSE /\ tasks' = Goto(s, "rejected")
          /\ UNCHANGED sessions
  /\ UNCHANGED <<users, reqSession, files, usage, resp, guestAdmitted, dbCheck>>
  /\ UNCHANGED <<clientVars, hookVars, screenVars, namingVars>>
  /\ statusResp' = Disturbed

\* one step of the detached processFilesAsync call of some session
NextPipeline ==
  \/ \E s \in 1..Len(tasks), ok \in BOOLEAN : TaskStart(s, ok)
  \/ \E s \in 1..Len(tasks), ok \in BOOLEAN : TaskLoopUpdate(s, ok)
  \/ \E s \in 1..Len(tasks), ok \in BOOLEAN : FileMark(s, ok)
  \/ \E s \in 1..Len(tasks), ok \in BOOLEAN : FileResult(s, ok)
  \/ \E s \in 1..Len(tasks), ok \in BOOLEAN : FileCatch(s, ok)
  \/ \E s \in 1..Len(tasks), ok \in BOOLEAN : TaskComplete(s, ok)
  \/ \E s \in 1..Len(tasks), ok \in BOOLEAN : TaskIncrement(s, ok)
  \/ \E s \in 1..Len(tasks), ok \in BOOLEAN, day \in Days :
       TaskUsageGet(s, ok, day)
  \/ \E s \in 1..Len(tasks), ok \in BOOLEAN : TaskUsagePut(s, ok)
  \/ \E s \in 1..Len(tasks), ok \in BOOLEAN : TaskCatch(s, ok)

\* the uploaded files of a batch of n, the one at `missing` deleted since
\* (missing = 0: all of them exist)
UploadedFiles(n, missing) ==
  [f \in 1..n |-> IF f = missing THEN NoFile ELSE NewFile]

\* the state right after processFiles answered 200 for a batch of n file
\* ids sent without body.fileCount, its task not yet started
InitSession ==
  /\ InitClient
  /\ \E owner \in Callers, n \in 1..LongBatch, missing \in 0..LongBatch,
        hasStats \in BOOLEAN :
       /\ missing <= n
       /\ users = [u \in Uids |-> UserDoc("free", 0)]
       /\ reqSession = NoReqSession
       /\ files = UploadedFiles(n, missing)
       /\ sessions = <<NewSession(owner, Batch(n))>>
       /\ tasks = <<NewTask(owner)>>
       /\ usage = [u \in Uids |-> IF hasStats THEN UsageAfterApiCall(1)
                                      ELSE NoUsage]
       /\ resp = [NoResp EXCEPT !.route = "process", !.userId = owner,
                                !.code = 200, !.requested = n, !.fileCount = 1,
                                !.next = TRUE, !.requestedCount = 1,
                                !.canProcess = TRUE,
                                !.role = IF owner = Guest THEN "none" ELSE "free",
                                !.monthlyLimit = IF owner = Guest THEN 0
                                                 ELSE FreeMonthlyLimit,
                                !.remainingFiles = IF owner = Guest THEN 0
                                                   ELSE FreeMonthlyLimit]
       /\ guestAdmitted = IF owner = Guest THEN n ELSE 0
       /\ dbCheck = NoCheck

SpecSession == InitSession /\ [][NextPipeline]_vars

\* every Firestore and provider call of the task eventually returns or
\* throws: the task keeps taking its next step while it has one
SpecSessionLive == SpecSession /\ WF_vars(NextPipeline)

\* ------------------- SpecConcurrent: sessions of one user, side by side
\* a registered free user has uploaded MaxBatch files and submitted nothing
InitConcurrent ==
  /\ InitClient
  /\ users = [u \in Uids |-> UserDoc("free", 0)]
  /\ reqSession = NoReqSession
  /\ files = UploadedFiles(MaxBatch, 0)
  /\ sessions = <<>>
  /\ tasks = <<>>
  /\ usage = [u \in Uids |-> NoUsage]
  /\ resp = NoResp
  /\ guestAdmitted = 0
  /\ dbCheck = NoCheck

\* the user submits the first n of the uploaded files, body.fileCount = n,
\* while earlier sessions may still be running
Submit(uid, n) ==
  /\ Len(sessions) < MaxSubmits
  /\ ProcessFilesRoute(uid, n, n, TRUE, TRUE)

NextConcurrent ==
  \/ \E uid \in Uids, n \in 1..MaxBatch : Submit(uid, n)
  \/ NextPipeline

SpecConcurrent == InitConcurrent /\ [][NextConcurrent]_vars

\* --------------------- SpecUsage: updateUsageStats calls side by side
\* a FileDocument processIndividualFile is done with
ProcessedFile ==
  [NewFile EXCEPT !.hasText = TRUE, !.suggestedName = "name",
                  !.processingStatus = "completed", !.isProcessed = TRUE]

\* the largest batch among sizes
Largest(sizes) ==
  CHOOSE m \in {sizes[k] : k \in DOMAIN sizes} :
    \A k \in DOMAIN sizes : sizes[k] <= m

\* the sum of sizes[1..k]
RECURSIVE Total(_, _)
Total(sizes, k) == IF k = 0 THEN 0 ELSE Total(sizes, k - 1) + sizes[k]

\* a registered free user submitted sessions of the given sizes, each let
\* through the gate with no file counted yet; every session has run without
\* a failure up to its call of updateUsageStats: marked completed, the
\* user's counters raised by incrementFileCount
InitUsage ==
  /\ InitClient
  /\ \E k \in 1..MaxSubmits, hasStats \in BOOLEAN :
       \E sizes \in [1..k -> 1..MaxBatch] :
         /\ users = [u \in Uids |-> UserDoc("free", Total(sizes, k))]
         /\ reqSession = NoReqSession
         /\ files = [f \in 1..MaxBatch |->
                       IF f <= Largest(sizes) THEN ProcessedFile ELSE NewFile]
         /\ sessions = [s \in 1..k |->
                          [NewSession("u1", Batch(sizes[s])) EXCEPT
                             !.status = "completed", !.progress = 100,
                             !.completedAt = TRUE,
                             !.currentFileIndex = sizes[s] - 1]]
         /\ tasks = [s \in 1..k |->
                       [NewTask("u1") EXCEPT !.pc = "usageGet",
                                             !.i = sizes[s],
                                             !.visited = sizes[s]]]
         /\ usage = [u \in Uids |-> IF hasStats THEN UsageAfterApiCall(1)
                                      ELSE NoUsage]
         /\ resp = [NoResp EXCEPT !.route = "process", !.userId = "u1",
                                  !.code = 200, !.requested = sizes[k],
                                  !.fileCount = sizes[k], !.next = TRUE,
                                  !.requestedCount = sizes[k],
                                  !.canProcess = TRUE, !.role = "free",
                                  !.monthlyLimit = FreeMonthlyLimit,
                                  !.remainingFiles = FreeMonthlyLimit]
         /\ guestAdmitted = 0
         /\ dbCheck = NoCheck

\* one step of one of the updateUsageStats calls, or of the catch block of
\* its caller
NextUsage ==
  \/ \E s \in 1..Len(tasks), ok \in BOOLEAN, day \in Days :
       TaskUsageGet(s, ok, day)
  \/ \E s \in 1..Len(tasks), ok \in BOOLEAN : TaskUsagePut(s, ok)
  \/ \E s \in 1..Len(tasks), ok \in BOOLEAN : TaskCatch(s, ok)

SpecUsage == InitUsage /\ [][NextUsage]_vars

\* ------------------------------------------ SpecStatus: status polling
\* a variant whose answer depends on how often the status was asked for
StatusDataByPolls(sessionId) ==
  [status |-> "processing", progress |-> 65 + statusResp.polls,
   currentFileIndex |-> 2, totalFiles |-> 5, processedFiles |-> 2,
   renamedFiles |-> 1, failedFiles |-> 0]

\* the data of the 200 answer of getProcessingStatus
StatusData(sessionId) ==
  [status |-> "processing", progress |-> 65, currentFileIndex |-> 2,
   totalFiles |-> 5, processedFiles |-> 2, renamedFiles |-> 1,
   failedFiles |-> 0]

\* GET /files/processing/:sessionId
GetProcessingStatus(sessionId) ==
  /\ statusResp.polls < MaxPolls
  /\ statusResp' =
       [polls |-> statusResp.polls + 1, quiet |-> TRUE,
        repeated |-> statusResp.quiet /\ statusResp.sessionId = sessionId,
        sessionId |-> sessionId, data |-> StatusData(sessionId)]
  /\ UNCHANGED <<backendVars, clientVars, hookVars, screenVars, namingVars>>

\* a session of up to PollBatch files and the polls of its status
InitStatus ==
  /\ InitSession
  /\ sessions[1].totalFiles <= PollBatch

NextStatus ==
  \/ NextPipeline
  \/ \E sessionId \in 1..Len(sessions) : GetProcessingStatus(sessionId)

SpecStatus == InitStatus /\ [][NextStatus]_vars

\* ------------------------------------------- SpecNaming: the naming step
\* strings are sequences of one-character strings
UpperCase == <<"A", "B", "C", "D", "E", "F", "G", "H", "I", "J", "K", "L", "M",
               "N", "O", "P", "Q", "R", "S", "T", "U", "V", "W", "X", "Y", "Z">>
LowerCase == <<"a", "b", "c", "d", "e", "f", "g", "h", "i", "j", "k", "l", "m",
               "n", "o", "p", "q", "r", "s", "t", "u", "v", "w", "x", "y", "z">>

\* the position of character c in alphabet, 0 if it is not in it
IndexIn(alphabet, c) ==
  IF \E k \in 1..Len(alphabet) : alphabet[k] = c
    THEN CHOOSE k \in 1..Len(alphabet) : alphabet[k] = c
    ELSE 0

\* String.prototype.toLowerCase
ToLowerCase(str) ==
  [k \in 1..Len(str) |->
     IF IndexIn(UpperCase, str[k]) > 0
       THEN LowerCase[IndexIn(UpperCase, str[k])] ELSE str[k]]

\* keyword.charAt(0).toUpperCase() + keyword.slice(1)
Capitalize(str) ==
  IF str = <<>> THEN <<>>
  ELSE <<IF IndexIn(LowerCase, str[1]) > 0
           THEN UpperCase[IndexIn(LowerCase, str[1])] ELSE str[1]>>
       \o Tail(str)

\* the characters the regular expression \s matches, among those used here
IsSpace(c) == c \in {" ", "\n", "\t"}

RECURSIVE SplitFrom(_, _, _, _)
\* str.split(/\s+/) from position k on: cur is the piece being read, out the
\* pieces already closed
SplitFrom(str, k, cur, out) ==
  IF k > Len(str) THEN Append(out, cur)
  ELSE IF IsSpace(str[k])
         THEN IF k > 1 /\ IsSpace(str[k - 1])
                THEN SplitFrom(str, k + 1, cur, out)
                ELSE SplitFrom(str, k + 1, <<>>, Append(out, cur))
         ELSE SplitFrom(str, k + 1, Append(cur, str[k]), out)

\* String.prototype.split(/\s+/)
SplitSpaces(str) == SplitFrom(str, 1, <<>>, <<>>)

\* Array.prototype.includes
Includes(arr, x) == \E k \in 1..Len(arr) : arr[k] = x

\* String.prototype.includes
StrIncludes(str, sub) ==
  \E k \in 0..(Len(str) - Len(sub)) : SubSeq(str, k + 1, k + Len(sub)) = sub

\* String.prototype.trim
RECURSIVE Trim(_)
Trim(str) ==
  IF str = <<>> THEN <<>>
  ELSE IF IsSpace(str[1]) THEN Trim(Tail(str))
  ELSE IF IsSpace(str[Len(str)]) THEN Trim(SubSeq(str, 1, Len(str) - 1))
  ELSE str

\* str.replace(/-/g, '')
RECURSIVE RemoveDashes(_)
RemoveDashes(str) ==
  IF str = <<>> THEN <<>>
  ELSE IF str[1] = "-" THEN RemoveDashes(Tail(str))
  ELSE <<str[1]>> \o RemoveDashes(Tail(str))

\* new Date().toISOString().slice(0, 10).replace(/-/g, ''), iso being what
\* toISOString answers at the time of the call
DateStamp(iso) == RemoveDashes(SubSeq(iso, 1, 10))

\* const keywords = ['invoice', 'receipt', 'contract', 'report', 'document',
\* 'letter']
Keywords ==
  << <<"i", "n", "v", "o", "i", "c", "e">>, <<"r", "e", "c", "e", "i", "p", "t">>,
    <<"c", "o", "n", "t", "r", "a", "c", "t">>, <<"r", "e", "p", "o", "r", "t">>,
    <<"d", "o", "c", "u", "m", "e", "n", "t">>, <<"l", "e", "t", "t", "e", "r">> >>

\* a variant that stamps the name with the hour as well
GenerateFallbackFilenameByHour(extractedText, iso) ==
  <<"D", "o", "c", "u", "m", "e", "n", "t">> \o <<"_">> \o RemoveDashes(SubSeq(iso, 1, 13))

\* generateFallbackFilename(extractedText), called when the clock reads iso
GenerateFallbackFilename(extractedText, iso) ==
  LET words == SplitSpaces(ToLowerCase(extractedText))
      hits == {k \in 1..Len(Keywords) : Includes(words, Keywords[k])}
      first == CHOOSE k \in hits : \A m \in hits : k <= m
  IN IF hits # {}
       THEN Capitalize(Keywords[first]) \o <<"_">> \o DateStamp(iso)
       ELSE <<"D", "o", "c", "u", "m", "e", "n", "t">> \o <<"_">> \o DateStamp(iso)

\* what the chat completion call does: it throws ("error"), answers with no
\* choice ("noChoices"), with a content of white space only ("blank") or
\* with a name surrounded by white space ("content")
Replies == {"error", "noChoices", "blank", "content"}

\* completion.choices[0]?.message?.content of a reply that did not throw
ReplyContent(reply) ==
  CASE reply = "content" -> <<" ", "Q", "3", "_", "R", "e", "p", "o", "r", "t",
                              "\n">>
    [] reply = "blank" -> <<" ", "\n">>
    [] OTHER -> <<>>

\* generateFilenameAI(extractedText, originalFilename); hasKey:
\* process.env.OPENAI_API_KEY is set
GenerateFilenameAI(hasKey, reply, extractedText, iso) ==
  IF ~hasKey THEN GenerateFallbackFilename(extractedText, iso)
  ELSE IF reply = "error" THEN GenerateFallbackFilename(extractedText, iso)
  ELSE IF Trim(ReplyContent(reply)) # <<>> THEN Trim(ReplyContent(reply))
  ELSE GenerateFallbackFilename(extractedText, iso)

\* FileService.getMockGeneratedFilename(extractedText)
GetMockGeneratedFilename(extractedText) ==
  LET lower == ToLowerCase(extractedText)
  IN IF StrIncludes(lower, <<"i", "n", "v", "o", "i", "c", "e">>)
       THEN <<"I", "n", "v", "o", "i", "c", "e", "_", "A", "C", "M", "E", "_",
              "C", "o", "r", "p", "_", "A", "u", "g", "_", "2", "0", "2",
              "3">>
     ELSE IF StrIncludes(lower, <<"r", "e", "c", "e", "i", "p", "t">>)
       THEN <<"R", "e", "c", "e", "i", "p", "t", "_", "B", "e", "s", "t", "_",
              "B", "u", "y", "_", "D", "e", "c", "_", "2", "0", "2", "3">>
     ELSE IF StrIncludes(lower, <<"r", "e", "p", "o", "r", "t">>)
       THEN <<"M", "o", "n", "t", "h", "l", "y", "_", "R", "e", "p", "o", "r",
              "t", "_", "Q", "3", "_", "2", "0", "2", "3">>
     ELSE <<"D", "o", "c", "u", "m", "e", "n", "t", "_", "D", "e", "c", "_",
            "2", "0", "2", "3">>

\* FileService.generateFilename(extractedText, originalFilename); apiKey:
\* the service was built with an API key.  "error" is a fetch that throws
\* or a response that is not ok.
ClientGenerateFilename(apiKey, reply, extractedText) ==
  IF ~apiKey THEN [threw |-> TRUE, name |-> <<>>]
  ELSE IF reply = "error"
    THEN [threw |-> FALSE, name |-> GetMockGeneratedFilename(extractedText)]
  ELSE IF Trim(ReplyContent(reply)) # <<>>
    THEN [threw |-> FALSE, name |-> Trim(ReplyContent(reply))]
  ELSE [threw |-> FALSE, name |-> <<"U", "n", "t", "i", "t", "l", "e", "d",
                                    "_", "D", "o", "c", "u", "m", "e", "n",
                                    "t">>]

\* the extracted texts of the naming calls
Texts ==
  { <<"I", "n", "v", "o", "i", "c", "e", " ", "4", "2">>,
    <<"I", "n", "v", "o", "i", "c", "e", ":", " ", "4", "2">>,
    <<"r", "e", "c", "e", "i", "p", "t", "\n", "I", "N", "V", "O", "I", "C",
      "E">>,
    <<"T", "a", "x", " ", "r", "e", "p", "o", "r", "t">>,
    <<" ", "h", "e", "l", "l", "o">>,
    <<>> }

\* what toISOString answers at the time of a call (cut after the hour)
Clocks ==
  { <<"2", "0", "2", "6", "-", "1", "1", "-", "0", "2", "T", "0", "9">>,
    <<"2", "0", "2", "6", "-", "1", "1", "-", "0", "2", "T", "2", "3">>,
    <<"2", "0", "2", "6", "-", "1", "1", "-", "0", "3", "T", "0", "0">> }

\* a call of generateFallbackFilename
CallGenerateFallbackFilename(extractedText, iso) ==
  /\ Cardinality(fallbackCalls) < MaxCalls
  /\ fallbackCalls' = fallbackCalls \cup
       {[text |-> extractedText, iso |-> iso,
         name |-> GenerateFallbackFilename(extractedText, iso)]}
  /\ UNCHANGED named
  /\ UNCHANGED <<backendVars, clientVars, hookVars, screenVars, pollVars>>

\* a call of the backend's generateFilenameAI
CallGenerateFilenameAI(hasKey, reply, extractedText, iso) ==
  /\ named' = [side |-> "backend", hasKey |-> hasKey, reply |-> reply,
               text |-> extractedText, iso |-> iso, threw |-> FALSE,
               name |-> GenerateFilenameAI(hasKey, reply, extractedText, iso)]
  /\ UNCHANGED fallbackCalls
  /\ UNCHANGED <<backendVars, clientVars, hookVars, screenVars, pollVars>>

\* a call of the client's fileService.generateFilename
CallClientGenerateFilename(apiKey, reply, extractedText) ==
  /\ LET r == ClientGenerateFilename(apiKey, reply, extractedText)
     IN named' = [side |-> "client", hasKey |-> apiKey, reply |-> reply,
                  text |-> extractedText, iso |-> <<>>, threw |-> r.threw,
                  name |-> r.name]
  /\ UNCHANGED fallbackCalls
  /\ UNCHANGED <<backendVars, clientVars, hookVars, screenVars, pollVars>>

NextFallback ==
  \E t \in Texts, iso \in Clocks : CallGenerateFallbackFilename(t, iso)

SpecFallback == InitHookScreen /\ [][NextFallback]_vars

NextNaming ==
  \/ \E hasKey \in BOOLEAN, reply \in Replies, t \in Texts, iso \in Clocks :
       CallGenerateFilenameAI(hasKey, reply, t, iso)
  \/ \E apiKey \in BOOLEAN, reply \in Replies, t \in Texts :
       CallClientGenerateFilename(apiKey, reply, t)

SpecNaming == InitHookScreen /\ [][NextNaming]_vars

\* ------------------------------------------- SpecHook: useFileProcessing
\* the five state values of the hook, for the steps that chain setters
HookState ==
  [files |-> hookFiles, processingStatus |-> processingStatus,
   isProcessing |-> isProcessing, error |-> error,
   shouldCancel |-> shouldCancel]

\* updateFileProgress(fileId, progress) applied to the state files
UpdateFileProgress(fs, fileId, progress) ==
  [k \in 1..Len(fs) |->
     IF fs[k].id = fileId
       THEN [fld \in DOMAIN fs[k] |->
               IF fld \in DOMAIN progress THEN progress[fld] ELSE fs[k][fld]]
       ELSE fs[k]]

\* updateStatus({stage, progress})
UpdateStatus(h, stage, progress) ==
  [h EXCEPT !.processingStatus = [stage |-> stage, progress |-> progress]]

\* resetProcessing()
ResetProcessing(h) ==
  [h EXCEPT !.files = <<>>, !.isProcessing = FALSE, !.error = "null",
            !.shouldCancel = FALSE, !.processingStatus = IdleStatus]

\* fileService.renameFile: the mock answers true
RenameFile == TRUE

\* fileService.batchRenameFiles(files)
BatchRenameFiles(fs) ==
  [k \in 1..Len(fs) |->
     IF fs[k].suggestedName THEN [fs[k] EXCEPT !.isRenamed = RenameFile]
     ELSE fs[k]]

\* a call processFiles(filesToProcess) of the callback built by the last
\* render: isProcessing, shouldCancel and files are the values it closed
\* over; cancelRequested records that cancelProcessing was called while the
\* run was in progress
NewRun(n, closure) ==
  [pc |-> "call", i |-> 0, filesToProcess |-> PickedFiles(n),
   isProcessing |-> closure.isProcessing,
   shouldCancel |-> closure.shouldCancel, files |-> closure.files,
   cancelRequested |-> FALSE, outcome |-> "none"]

\* the run returns; finally { setIsProcessing(false) }
EndRun(h, r, outcome) ==
  [h |-> [h EXCEPT !.isProcessing = FALSE],
   r |-> [r EXCEPT !.pc = "ended", !.outcome = outcome]]

\* stage 3 up to the await of batchRenameFiles
RenameHead(h, r) ==
  [h |-> UpdateStatus(h, "renaming", Frac(66, 1)),
   r |-> [r EXCEPT !.pc = "renameAwait"]]

\* files.find(f => f.id === file.id)?.extractedText, on the files closed over
HasExtractedText(r, j) ==
  \E k \in 1..Len(r.files) :
    /\ r.files[k].id = r.filesToProcess[j + 1].id
    /\ \A m \in 1..(k - 1) : r.files[m].id # r.files[k].id
    /\ r.files[k].extractedText

RECURSIVE AnalyzeHead(_, _)
\* the analyze loop from position r.i up to its next await, or past its end
AnalyzeHead(h, r) ==
  LET n == Len(r.filesToProcess) IN
  IF r.i < n /\ ~r.shouldCancel
    THEN IF ~HasExtractedText(r, r.i)
           THEN AnalyzeHead(h, [r EXCEPT !.i = r.i + 1])
           ELSE [h |-> [UpdateStatus(h, "analyzing",
                                     Frac(33 * n + r.i * 33, n))
                          EXCEPT !.files =
                            UpdateFileProgress(h.files,
                                               r.filesToProcess[r.i + 1].id,
                                               [isProcessing |-> TRUE])],
                 r |-> [r EXCEPT !.pc = "analyzeAwait"]]
    ELSE IF r.shouldCancel
           THEN EndRun(ResetProcessing(h), r, "reset")
           ELSE RenameHead(h, r)

\* the extract loop from position r.i up to its next await, or past its end
ExtractHead(h, r) ==
  LET n == Len(r.filesToProcess) IN
  IF r.i < n /\ ~r.shouldCancel
    THEN [h |-> [UpdateStatus(h, "extracting", Frac(r.i * 33, n))
                   EXCEPT !.files =
                     UpdateFileProgress(h.files, r.filesToProcess[r.i + 1].id,
                                        [isProcessing |-> TRUE])],
          r |-> [r EXCEPT !.pc = "extractAwait"]]
    ELSE IF r.shouldCancel
           THEN EndRun(ResetProcessing(h), r, "reset")
           ELSE AnalyzeHead(UpdateStatus(h, "analyzing", Frac(33, 1)),
                            [r EXCEPT !.i = 0])

\* the setters of one synchronous stretch take effect
Publish(h) ==
  /\ hookFiles' = h.files
  /\ processingStatus' = h.processingStatus
  /\ isProcessing' = h.isProcessing
  /\ error' = h.error
  /\ shouldCancel' = h.shouldCancel

\* processFiles(filesToProcess), up to its first await
ProcessFiles(n) ==
  /\ Len(runs) < MaxRuns
  /\ LET r == NewRun(n, rendered) IN
     IF r.isProcessing
       THEN /\ runs' = Append(runs, [r EXCEPT !.pc = "ended",
                                              !.outcome = "ignored"])
            /\ UNCHANGED <<hookFiles, processingStatus, isProcessing, error,
                           shouldCancel>>
       ELSE LET h == [files |-> r.filesToProcess,
                      processingStatus |-> processingStatus,
                      isProcessing |-> TRUE, error |-> "null",
                      shouldCancel |-> FALSE]
                res == ExtractHead(UpdateStatus(h, "extracting", Frac(0, 1)),
                                   r)
            IN /\ Publish(res.h)
               /\ runs' = Append(runs, res.r)
  /\ UNCHANGED rendered
  /\ UNCHANGED <<backendVars, clientVars, screenVars, pollVars, namingVars>>

\* extractTextFromImage / extractTextFromPDF of the file in flight settles:
\* with a text, with an empty text, or it throws into the per-file catch
ExtractReturn(x, result) ==
  /\ runs[x].pc = "extractAwait"
  /\ LET r == runs[x]
         fileId == r.filesToProcess[r.i + 1].id
         progress == CASE result = "text" ->
                            [extractedText |-> TRUE, isProcessing |-> FALSE]
                      [] result = "empty" ->
                            [extractedText |-> FALSE, isProcessing |-> FALSE]
                      [] OTHER -> [isProcessing |-> FALSE]
         h == [HookState EXCEPT
                 !.files = UpdateFileProgress(hookFiles, fileId, progress)]
         res == ExtractHead(h, [r EXCEPT !.i = r.i + 1])
     IN /\ Publish(res.h)
        /\ runs' = [runs EXCEPT ![x] = res.r]
  /\ UNCHANGED rendered
  /\ UNCHANGED <<backendVars, clientVars, screenVars, pollVars, namingVars>>

\* a variant: the service the hook calls was built with an API key
FileServiceWithKey == TRUE

\* export const fileService = new FileService(): the hook's service was
\* built without an API key
FileServiceApiKey == FALSE

\* fileService.generateFilename(currentFile.extractedText, ...) of the file
\* in flight settles, the provider being able to answer (ok) or not: with a
\* name, or it throws into the per-file catch.  The text handed over is the
\* non-empty one of the closure's files.
AnalyzeReturn(x, ok) ==
  /\ runs[x].pc = "analyzeAwait"
  /\ LET r == runs[x]
         fileId == r.filesToProcess[r.i + 1].id
         answer == ClientGenerateFilename(FileServiceApiKey,
                                          IF ok THEN "content" ELSE "error",
                                          <<"t">>)
         progress == IF answer.threw THEN [isProcessing |-> FALSE]
                     ELSE [suggestedName |-> answer.name # <<>>,
                           isProcessing |-> FALSE]
         h == [HookState EXCEPT
                 !.files = UpdateFileProgress(hookFiles, fileId, progress)]
         res == AnalyzeHead(h, [r EXCEPT !.i = r.i + 1])
     IN /\ Publish(res.h)
        /\ runs' = [runs EXCEPT ![x] = res.r]
  /\ UNCHANGED rendered
  /\ UNCHANGED <<backendVars, clientVars, screenVars, pollVars, namingVars>>

\* batchRenameFiles(files) settles: setFiles(renamedFiles), stage complete
RenameReturn(x) ==
  /\ runs[x].pc = "renameAwait"
  /\ LET r == runs[x]
         h == [HookState EXCEPT !.files = BatchRenameFiles(r.files)]
         res == EndRun(UpdateStatus(h, "complete", Frac(100, 1)), r,
                       "complete")
     IN /\ Publish(res.h)
        /\ runs' = [runs EXCEPT ![x] = res.r]
  /\ UNCHANGED rendered
  /\ UNCHANGED <<backendVars, clientVars, screenVars, pollVars, namingVars>>

\* cancelProcessing()
CancelProcessing ==
  /\ shouldCancel' = TRUE
  /\ isProcessing' = FALSE
  /\ processingStatus' = IdleStatus
  /\ runs' = [x \in 1..Len(runs) |->
                IF runs[x].pc # "ended"
                  THEN [runs[x] EXCEPT !.cancelRequested = TRUE]
                  ELSE runs[x]]
  /\ UNCHANGED <<hookFiles, error, rendered>>
  /\ UNCHANGED <<backendVars, clientVars, screenVars, pollVars, namingVars>>

\* resetProcessing() called by the component
ResetProcessingCall ==
  /\ Publish(ResetProcessing(HookState))
  /\ UNCHANGED <<rendered, runs>>
  /\ UNCHANGED <<backendVars, clientVars, screenVars, pollVars, namingVars>>

\* setFiles(files) called by the component before its first call of
\* processFiles, with items that carry an extracted text already (withText)
\* or not
SetFilesCall(n, withText) ==
  /\ runs = <<>>
  /\ hookFiles' = [k \in 1..n |->
                     [FreshItem(k) EXCEPT !.extractedText = withText]]
  /\ UNCHANGED <<processingStatus, isProcessing, error, shouldCancel,
                 rendered, runs>>
  /\ UNCHANGED <<backendVars, clientVars, screenVars, pollVars, namingVars>>

\* React renders the component again: the useCallback dependencies
\* [isProcessing, shouldCancel, files] changed, processFiles is rebuilt
Render ==
  /\ rendered # Closure(isProcessing, shouldCancel, hookFiles)
  /\ rendered' = Closure(isProcessing, shouldCancel, hookFiles)
  /\ UNCHANGED <<hookFiles, processingStatus, isProcessing, error,
                 shouldCancel, runs>>
  /\ UNCHANGED <<backendVars, clientVars, screenVars, pollVars, namingVars>>

NextHook ==
  \/ \E n \in 1..HookBatch : ProcessFiles(n)
  \/ \E x \in 1..Len(runs), result \in {"text", "empty", "throw"} :
       ExtractReturn(x, result)
  \/ \E x \in 1..Len(runs), ok \in BOOLEAN : AnalyzeReturn(x, ok)
  \/ \E x \in 1..Len(runs) : RenameReturn(x)
  \/ CancelProcessing
  \/ ResetProcessingCall
  \/ \E n \in 1..HookBatch, withText \in BOOLEAN : SetFilesCall(n, withText)
  \/ Render

SpecHook == InitHookScreen /\ [][NextHook]_vars

\* ------------------------------------------ SpecScreen: ProcessingScreen
\* a setter of the screen: React drops the update once the screen is gone
SetScreen(scr) == IF nav.at = "Processing" THEN scr ELSE screen

\* the head of one loop iteration of a stage, up to its await:
\* setProcessingStatus({stage, progress: base + (i / n) * span}),
\* updatedFiles[i] = {...file, isProcessing: true}, setFiles([...updatedFiles])
ScreenIteration(scr, run, stage, base, span) ==
  LET n == Len(run.updatedFiles)
      marked == [run.updatedFiles EXCEPT ![run.i + 1].isProcessing = TRUE]
  IN [scr |-> [scr EXCEPT
                 !.processingStatus =
                    [stage |-> stage,
                     progress |-> Frac(base * n + run.i * span, n)],
                 !.currentFileIndex =
                    IF stage = "extracting" THEN run.i ELSE @,
                 !.files = marked],
      run |-> [run EXCEPT !.pc = stage, !.updatedFiles = marked]]

\* the start of a stage: setProcessingStatus({stage, progress: base}),
\* const updatedFiles = [...files] with the files of the closure, then the
\* first iteration
ScreenStage(scr, run, stage, base, span) ==
  ScreenIteration([scr EXCEPT !.processingStatus =
                                 [stage |-> stage, progress |-> Frac(base, 1)]],
                  [run EXCEPT !.i = 0, !.updatedFiles = run.files],
                  stage, base, span)

\* the end of one iteration: updatedFiles[i] = {...file, <result>}, then
\* the next iteration, or the loop is over (run.pc left as it is)
ScreenIterationEnd(scr, run, item, stage, base, span) ==
  LET done == [run.updatedFiles EXCEPT ![run.i + 1] = item]
      scr1 == [scr EXCEPT !.files = done]
      run1 == [run EXCEPT !.updatedFiles = done, !.i = run.i + 1]
  IN IF run1.i < Len(done)
       THEN ScreenIteration(scr1, run1, stage, base, span)
       ELSE [scr |-> scr1, run |-> [run1 EXCEPT !.pc = "stageEnd"]]

\* navigation.navigate('Processing', {files}); useEffect: startProcessing()
\* up to the first await of extractTextFromFiles.  The items may carry an
\* extractedText or a suggestedName from an earlier pass.
Mount(n, withText, withName) ==
  /\ nav.at = "Home"
  /\ screenRun = NoScreenRun
  /\ LET fs == [k \in 1..n |->
                  [FreshItem(k) EXCEPT !.extractedText = withText,
                                       !.suggestedName = withName]]
         scr == [ScreenState(fs) EXCEPT !.isProcessing = TRUE]
         res == ScreenStage(scr, [NoScreenRun EXCEPT !.files = fs],
                            "extracting", 0, 33)
     IN /\ screen' = res.scr
        /\ screenRun' = res.run
        /\ nav' = [at |-> "Processing", files |-> fs]
  /\ UNCHANGED <<backendVars, clientVars, hookVars, pollVars, namingVars>>

\* extractTextFromFiles: simulateAsyncProcess(2000) of file i is over;
\* getMockExtractedText always answers a text; after the last file
\* analyzeFilesWithAI starts
ScreenExtractDone ==
  /\ screenRun.pc = "extracting"
  /\ LET file == screenRun.files[screenRun.i + 1]
         item == [file EXCEPT !.extractedText = TRUE, !.isProcessing = FALSE]
         res == ScreenIterationEnd(screen, screenRun, item, "extracting", 0, 33)
         nxt == IF res.run.pc = "stageEnd"
                  THEN ScreenStage(res.scr, res.run, "analyzing", 33, 33)
                  ELSE res
     IN /\ screen' = SetScreen(nxt.scr)
        /\ screenRun' = nxt.run
  /\ UNCHANGED nav
  /\ UNCHANGED <<backendVars, clientVars, hookVars, pollVars, namingVars>>

\* analyzeFilesWithAI: simulateAsyncProcess(3000) of file i is over;
\* generateMockFilename always answers a name; after the last file
\* applyNewFilenames starts
ScreenAnalyzeDone ==
  /\ screenRun.pc = "analyzing"
  /\ LET file == screenRun.files[screenRun.i + 1]
         item == [file EXCEPT !.suggestedName = TRUE, !.isProcessing = FALSE]
         res == ScreenIterationEnd(screen, screenRun, item, "analyzing", 33, 33)
         nxt == IF res.run.pc = "stageEnd"
                  THEN ScreenStage(res.scr, res.run, "renaming", 66, 34)
                  ELSE res
     IN /\ screen' = SetScreen(nxt.scr)
        /\ screenRun' = nxt.run
  /\ UNCHANGED nav
  /\ UNCHANGED <<backendVars, clientVars, hookVars, pollVars, namingVars>>

\* applyNewFilenames: simulateAsyncProcess(1000) of file i is over:
\* newName = file.suggestedName || file.name, isRenamed: true; after the
\* last file startProcessing sets stage complete and arms the 2 s timer
ScreenRenameDone ==
  /\ screenRun.pc = "renaming"
  /\ LET file == screenRun.files[screenRun.i + 1]
         item == [file EXCEPT !.isRenamed = TRUE, !.isProcessing = FALSE]
         res == ScreenIterationEnd(screen, screenRun, item, "renaming", 66, 34)
         nxt == IF res.run.pc = "stageEnd"
                  THEN [scr |-> [res.scr EXCEPT !.processingStatus =
                                   [stage |-> "complete",
                                    progress |-> Frac(100, 1)]],
                        run |-> [res.run EXCEPT !.pc = "timer"]]
                  ELSE res
     IN /\ screen' = SetScreen(nxt.scr)
        /\ screenRun' = nxt.run
  /\ UNCHANGED nav
  /\ UNCHANGED <<backendVars, clientVars, hookVars, pollVars, namingVars>>

\* setTimeout(() => navigation.replace('Results', {files}), 2000) fires
ScreenTimer ==
  /\ screenRun.pc = "timer"
  /\ screenRun' = [screenRun EXCEPT !.pc = "done"]
  /\ nav' = [at |-> "Results", files |-> screenRun.files]
  /\ UNCHANGED screen
  /\ UNCHANGED <<backendVars, clientVars, hookVars, pollVars, namingVars>>

\* handleCancel, the user confirms: navigation.goBack()
HandleCancel ==
  /\ nav.at = "Processing"
  /\ nav' = [nav EXCEPT !.at = "Home"]
  /\ UNCHANGED <<screen, screenRun>>
  /\ UNCHANGED <<backendVars, clientVars, hookVars, pollVars, namingVars>>

NextScreen ==
  \/ \E n \in 1..ScreenBatch, withText \in BOOLEAN, withName \in BOOLEAN :
       Mount(n, withText, withName)
  \/ ScreenExtractDone
  \/ ScreenAnalyzeDone
  \/ ScreenRenameDone
  \/ ScreenTimer
  \/ HandleCancel

SpecScreen == InitHookScreen /\ [][NextScreen]_vars

\* ============================================================ properties

\* C1: for one guest identity the files ever admitted through
\* checkFileProcessingLimit never total more than 5.
C1_GuestNeverOverFive == guestAdmitted <= GuestLimit

\* C2: a guest with c files admitted is allowed a submission of n files
\* exactly when c + n <= 5, and a rejection reports the remaining quota
\* 5 - c and the n files requested (stated for the requests whose
\* body.fileCount is the true size of the batch).
C2_GuestGateExact ==
  (resp.route = "process" /\ resp.userId = Guest /\ resp.requested >= 1
     /\ resp.fileCount = resp.requested /\ resp.code \in {200, 403})
  => /\ resp.canProcess <=> (resp.prior + resp.requested <= GuestLimit)
     /\ ~resp.canProcess =>
          /\ GuestLimit - resp.currentCount = GuestLimit - resp.prior
          /\ resp.requestedCount = resp.requested

\* the answer c of a canProcessFiles call is the one the quota rule gives
C3_Decision(c) ==
  /\ c.canProcess <=> (c.role = "premium" \/ c.monthlyLimit - c.used >= c.n)
  /\ c.remainingFiles = c.monthlyLimit - c.used

\* C3: for a registered caller canProcessFiles allows n files exactly when
\* the role is premium or monthlyLimit - filesProcessedThisMonth >= n, and
\* reports remaining = monthlyLimit - filesProcessedThisMonth (backend
\* DatabaseService and client AuthService alike).
C3_RegisteredQuota ==
  /\ dbCheck.called => C3_Decision(dbCheck)
  /\ (clientCheck.called /\ ~clientCheck.guest) => C3_Decision(clientCheck)

\* C3 witness: backend and client both admitted a premium user who asked
\* for more files than the monthly limit leaves
C3_Witness ==
  /\ dbCheck.called /\ dbCheck.role = "premium" /\ dbCheck.canProcess
  /\ dbCheck.monthlyLimit - dbCheck.used < dbCheck.n
  /\ clientCheck.called /\ ~clientCheck.guest /\ clientCheck.role = "premium"
  /\ clientCheck.canProcess /\ clientCheck.remainingFiles < clientCheck.n

\* C4: the file count the gate compares against the quota is the size of
\* the batch: the number of ids of POST /files/process, the number of
\* files of POST /files/upload.
C4_FileCountIsBatchSize ==
  (resp.route \in {"process", "upload"} /\ resp.requested >= 1)
  => resp.fileCount = resp.requested

\* C5: a POST /files/process the quota gate does not admit creates no
\* session, starts no task, touches no file and changes no counter.
C5_RejectedChangesNothing ==
  [][(resp'.route = "process" /\ ~resp'.canProcess)
       => UNCHANGED <<sessions, tasks, files, users, usage, guestAdmitted,
                      reqSession>>]_vars

\* C5 witness: the gate answered 403 to a registered caller and to nobody
\* has a session been created
C5_Witness ==
  /\ resp.route = "process" /\ resp.code = 403 /\ resp.userId \in Uids
  /\ resp.requested >= 1 /\ sessions = <<>>

\* the task of session s has returned (done) or its promise has rejected
TaskEnded(s) == tasks[s].pc \in {"done", "rejected"}

\* C6: the progress values written to a session record, from its creation
\* to its terminal status, never go down (batches of 1 to 20 files).
C6_ProgressNeverDecreases ==
  [][\A s \in 1..Len(sessions) :
       s <= Len(sessions') => sessions'[s].progress >= sessions[s].progress]_vars

\* C7: a session's final progress is exactly 100 if and only if its final
\* status is completed.
C7_HundredIffCompleted ==
  \A s \in 1..Len(sessions) :
    TaskEnded(s) =>
      (sessions[s].progress = 100 <=> sessions[s].status = "completed")

\* C8: a session's status moves only along pending -> processing ->
\* {completed, failed}, and once completed or failed it never changes again
\* (a session that fails before its first write, pending -> failed, is let
\* pass here).
C8_StatusOrder ==
  [][\A s \in 1..Len(sessions) :
       s <= Len(sessions') =>
         \/ sessions'[s].status = sessions[s].status
         \/ sessions[s].status = "pending"
              /\ sessions'[s].status \in {"processing", "failed"}
         \/ sessions[s].status = "processing"
              /\ sessions'[s].status \in {"completed", "failed"}]_vars

\* C9 (backend): when processing the file at some position fails, every
\* later file of the batch is still visited, and the session does not end
\* failed on account of that file.
C9_FileFailureDoesNotAbort ==
  \A s \in 1..Len(sessions) :
    (TaskEnded(s) /\ tasks[s].failedAt > 0) =>
      /\ tasks[s].visited = sessions[s].totalFiles
      /\ tasks[s].thrown = "file" => sessions[s].status # "failed"

\* C10: once cancelProcessing was called while a run of processFiles was in
\* progress, the next step of that run (the file in flight settling) ends
\* the run: it starts no further file and no further stage, and the run does
\* not end in the complete outcome.
C10_CancelStopsRun ==
  [][\A x \in 1..Len(runs) :
       (runs[x].cancelRequested /\ runs'[x] # runs[x]) =>
         (runs'[x].pc = "ended" /\ runs'[x].outcome # "complete")]_vars

\* C11 (screen): a file of the ProcessingScreen list whose extractedText is
\* empty or unset is not given a suggestedName: whenever a step sets the
\* suggestedName of a listed file, that file carries a non-empty
\* extractedText.
C11_ScreenNoNameWithoutText ==
  [][\A k \in 1..Len(screen.files) :
       (~screen.files[k].suggestedName /\ screen'.files[k].suggestedName) =>
         screen'.files[k].extractedText]_vars

\* C11 (hook): a file of the hook's list whose extractedText is empty or
\* unset never carries a suggestedName: the analyze stage leaves every file
\* without a name that the extract stage left without a text.
C11_NoNameWithoutText ==
  \A k \in 1..Len(hookFiles) :
    hookFiles[k].suggestedName => hookFiles[k].extractedText

\* C11 (hook) witness: a run is past its analyze stage, in which the naming step
\* was called for its first file on account of the text in the closure's
\* files, while the extract stage had left that file without a text
C11_Witness ==
  \E x \in 1..Len(runs) :
    /\ runs[x].pc = "renameAwait"
    /\ HasExtractedText(runs[x], 0)
    /\ Len(hookFiles) >= 1
    /\ hookFiles[1].id = runs[x].filesToProcess[1].id
    /\ ~hookFiles[1].extractedText
    /\ ~hookFiles[1].suggestedName

\* C12 (screen): a file of the ProcessingScreen list with isRenamed = true
\* has a non-empty suggestedName: the rename stage renames no file the
\* analyze stage left without a name.
C12_RenamedHasName ==
  \A k \in 1..Len(screen.files) :
    screen.files[k].isRenamed => screen.files[k].suggestedName

\* C13: the data a call of GET /files/processing/:sessionId returns are
\* the stored session's status, progress, currentFileIndex, totalFiles and
\* processed / renamed / failed counts at the time of the call.
C13_StatusIsStoredState ==
  [][statusResp'.polls > statusResp.polls =>
       LET d == statusResp'.data
           s == sessions'[statusResp'.sessionId]
       IN /\ d.status = s.status
          /\ d.progress = s.progress
          /\ d.currentFileIndex = s.currentFileIndex
          /\ d.totalFiles = s.totalFiles
          /\ d.processedFiles = s.processedFiles
          /\ d.renamedFiles = s.renamedFiles
          /\ d.failedFiles = s.failedFiles]_vars

\* C14: a call of getProcessingStatus changes no session, file, user or
\* usage record, and a call that follows another call for the same session
\* with no pipeline step between them returns the same data.
C14_PollReadOnlyIdempotent ==
  [][statusResp'.polls > statusResp.polls =>
       /\ UNCHANGED <<sessions, files, users, usage>>
       /\ statusResp'.repeated => statusResp'.data = statusResp.data]_vars

\* C14 witness: the status of a session in progress was asked for twice in
\* a row with no pipeline step in between
C14_Witness ==
  /\ statusResp.polls >= 2 /\ statusResp.repeated /\ statusResp.quiet
  /\ sessions[statusResp.sessionId].status = "processing"

\* C15: in every state of every session processedFiles + failedFiles is at
\* most totalFiles, in the stored record and in the status data returned.
C15_CountsWithinTotal ==
  /\ \A s \in 1..Len(sessions) :
       sessions[s].processedFiles + sessions[s].failedFiles
         <= sessions[s].totalFiles
  /\ statusResp.polls > 0 =>
       statusResp.data.processedFiles + statusResp.data.failedFiles
         <= statusResp.data.totalFiles

\* C15 witness: a session ended failed on a file that could not be
\* processed, and its status was asked for
C15_Witness ==
  /\ statusResp.polls > 0
  /\ \E s \in 1..Len(sessions) :
       /\ TaskEnded(s) /\ tasks[s].failedAt > 0
       /\ sessions[s].status = "failed"

\* C16: when every file of the batch succeeded and the task returned
\* without any failure, the session is completed with progress 100,
\* processedFiles = renamedFiles = totalFiles and failedFiles = 0.
C16_AllSucceedCounts ==
  \A s \in 1..Len(sessions) :
    (tasks[s].pc = "done" /\ tasks[s].thrown = "none") =>
      /\ sessions[s].status = "completed"
      /\ sessions[s].progress = 100
      /\ sessions[s].processedFiles = sessions[s].totalFiles
      /\ sessions[s].renamedFiles = sessions[s].totalFiles
      /\ sessions[s].failedFiles = 0

\* C17 (backend): no file of a session is handed to the naming stage before
\* the extract stage has visited every file of the batch.
C17_StagesSequential ==
  \A s \in 1..Len(sessions) :
    \A j, k \in 1..Len(sessions[s].fileIds) :
      LET f == sessions[s].fileIds[j]
          g == sessions[s].fileIds[k]
      IN (FileExists(f) /\ files[f].suggestedName # "none")
           => (FileExists(g) => files[g].processingStatus # "pending")

\* the naming provider of the last naming call was unavailable: no API key,
\* a provider error, or an empty answer
ProviderUnavailable ==
  named.side # "none" /\ (~named.hasKey \/ named.reply # "content")

\* C18: when the naming provider is unavailable the naming step, backend
\* generateFilenameAI and client fileService.generateFilename alike, does
\* not fail but returns a non-empty fallback name.
C18_FallbackInsteadOfFailure ==
  ProviderUnavailable => (~named.threw /\ named.name # <<>>)

\* C19: two calls of generateFallbackFilename with the same extractedText on
\* the same date return the same name, whatever the time of day and
\* whatever was called before.
C19_FallbackDeterministic ==
  \A a, b \in fallbackCalls :
    (a.text = b.text /\ DateStamp(a.iso) = DateStamp(b.iso))
      => a.name = b.name

\* C19 witness: the generator was called twice with the same text holding a
\* keyword, on the same date at different hours
C19_Witness ==
  \E a, b \in fallbackCalls :
    /\ a.text = b.text /\ a.iso # b.iso
    /\ DateStamp(a.iso) = DateStamp(b.iso)
    /\ SubSeq(a.name, 1, 8) = <<"I", "n", "v", "o", "i", "c", "e", "_">>

\* C20: when the provider fails for a text that contains "Invoice",
\* generateFilenameAI returns Invoice_ followed by the date (YYYYMMDD).
C20_InvoiceFallback ==
  (named.side = "backend" /\ ProviderUnavailable
     /\ StrIncludes(named.text, <<"I", "n", "v", "o", "i", "c", "e">>))
  => named.name = <<"I", "n", "v", "o", "i", "c", "e", "_">>
                    \o DateStamp(named.iso)

C22_FailedCountsNothing ==
  \A s \in 1..Len(sessions) :
    (sessions[s].status = "failed" /\ sessions[s].userId # Guest) =>
      LET uid == sessions[s].userId
      IN /\ users[uid].filesProcessedThisMonth = 0
         /\ users[uid].totalFilesProcessed = 0
         /\ usage[uid].filesProcessed = 0

\* the sum of field fld over all entries of dailyStats
RECURSIVE SumOfDays(_, _, _)
SumOfDays(dailyStats, days, fld) ==
  IF days = {} THEN 0
  ELSE LET d == CHOOSE x \in days : TRUE
       IN dailyStats[d][fld] + SumOfDays(dailyStats, days \ {d}, fld)

\* the files of the first k sessions whose call of updateUsageStats for uid
\* has returned (each such call adds the size of its batch)
RECURSIVE AppliedTo(_, _)
AppliedTo(uid, k) ==
  IF k = 0 THEN 0
  ELSE AppliedTo(uid, k - 1) +
       (IF /\ tasks[k].userId = uid
           /\ tasks[k].pc = "done" /\ tasks[k].thrown = "none"
        THEN Len(sessions[k].fileIds) ELSE 0)

\* C23: no update of the monthly usage document is lost: whatever the
\* interleaving of the updateUsageStats calls for one owner, filesProcessed
\* and textExtracted of the owner's document equal the sum of the increments
\* of the calls that have returned.
C23_NoLostUsageUpdate ==
  \A uid \in Uids :
    /\ usage[uid].filesProcessed = AppliedTo(uid, Len(tasks))
    /\ usage[uid].textExtracted = AppliedTo(uid, Len(tasks))

\* C24: in every state of a usage document each of filesProcessed,
\* textExtracted and filesRenamed equals the sum of that field over the
\* entries of dailyStats.
C24_TotalsAreSumOfDays ==
  \A uid \in Uids :
    LET u == usage[uid]
    IN /\ u.filesProcessed =
            SumOfDays(u.dailyStats, DOMAIN u.dailyStats, "filesProcessed")
       /\ u.textExtracted =
            SumOfDays(u.dailyStats, DOMAIN u.dailyStats, "textExtracted")
       /\ u.filesRenamed =
            SumOfDays(u.dailyStats, DOMAIN u.dailyStats, "filesRenamed")

\* C24 witness: two calls of updateUsageStats for one owner have written on
\* two different days: the document carries two entries of dailyStats with
\* files counted in each
C24_Witness ==
  \E uid \in Uids :
    /\ usage[uid].exists
    /\ Cardinality(DOMAIN usage[uid].dailyStats) >= 2
    /\ \A d \in DOMAIN usage[uid].dailyStats :
         usage[uid].dailyStats[d].filesProcessed > 0

\* C27: filesProcessedThisMonth of a registered user who is not premium
\* never exceeds monthlyLimit, whatever the number and interleaving of the
\* user's submissions.
C27_MonthlyLimitKept ==
  \A uid \in Uids :
    users[uid].role # "premium" =>
      users[uid].filesProcessedThisMonth <= users[uid].monthlyLimit

\* C25: the detached call of processFilesAsync never ends in a rejected
\* promise: whatever fails, the task returns and the outcome is in the
\* session and file records only.
C25_NoRejection ==
  \A s \in 1..Len(tasks) : tasks[s].pc # "rejected"

\* C26: every session eventually has a terminal status, completed or
\* failed, every call of its task eventually returning or throwing.
C26_EventuallyTerminal ==
  \A s \in 1..MaxSessions :
    <>(s <= Len(sessions) => sessions[s].status \in {"completed", "failed"})

\* C28: while a session has status completed, every file of its batch has
\* processingStatus completed, isProcessed true and a suggestedName; none is
\* pending, processing or failed.
C28_CompletedMeansAllFilesDone ==
  \A s \in 1..Len(sessions) :
    sessions[s].status = "completed" =>
      \A k \in 1..Len(sessions[s].fileIds) :
        LET f == files[sessions[s].fileIds[k]]
        IN /\ f.processingStatus = "completed"
           /\ f.isProcessed
           /\ f.suggestedName # "none"

\* C29: the rename stage of the hook publishes a list with the ids of the
\* batch passed to processFiles, in the same order, and in it a file that
\* had no suggestedName is as it was before the stage.
C29_RenameKeepsBatch ==
  [][\A x \in 1..Len(runs) :
       (runs[x].pc = "renameAwait" /\ runs'[x].outcome = "complete") =>
         /\ Len(hookFiles') = Len(runs[x].filesToProcess)
         /\ \A k \in 1..Len(hookFiles') :
              hookFiles'[k].id = runs[x].filesToProcess[k].id
         /\ \A k \in 1..Len(hookFiles') :
              (k <= Len(hookFiles) /\ ~hookFiles[k].suggestedName) =>
                hookFiles'[k] = hookFiles[k]]_vars

\* C30: at most one run of processFiles is in progress in a hook instance
\* at any time.
C30_OneActiveRun ==
  Cardinality({x \in 1..Len(runs) : runs[x].pc # "ended"}) <= 1

====
